---- MODULE Spec2Model ----
(***************************************************************************)
(* GLSLPostProcessor (filamat): the shader post-processing pipeline.       *)
(*                                                                         *)
(* One GLSLPostProcessor is constructed, then process() is called once per *)
(* shader.  process() is modelled statement group by statement group: the  *)
(* variable pc is the position inside process() and the functions it       *)
(* calls (preprocessOptimization, fullOptimization, optimizeSpirv,         *)
(* spirvToToMsl).  The external libraries (glslang, SPIRV-Tools,           *)
(* SPIRV-Cross, ShaderMinifier) are opaque: a text or a SPIR-V blob is a   *)
(* symbolic value recording where it came from and what was applied to     *)
(* it, and the success of an external call is a nondeterministic input.    *)
(***************************************************************************)
EXTENDS Naturals, Sequences, FiniteSets

\* ------------------------------------------------------------------ bounds

\* Sampler names a SamplerInterfaceBlock may declare.
Names == {"a", "b"}

\* Largest number of samplers declared by one SamplerInterfaceBlock.
MaxSamplers == 2

\* Enum::count<SamplerBindingPoints>() and the PER_MATERIAL_INSTANCE entry.
NumSamplerBindingPoints == 3
PER_MATERIAL_INSTANCE == 1

\* ------------------------------------------------------------- enumerations

ShaderStages == {"VERTEX", "FRAGMENT"}
ShaderModels == {"MOBILE", "DESKTOP"}
TargetApis == {"OPENGL", "VULKAN", "METAL"}
TargetLanguages == {"GLSL", "SPIRV"}
Optimizations == {"NONE", "PREPROCESSOR", "SIZE", "PERFORMANCE"}
MaterialDomains == {"SURFACE", "POST_PROCESS"}

\* GLSLPostProcessor::Config, without the material descriptor (materialInfo,
\* variant), which is read by getBindingIndexMap only: see sibTable.
Configs ==
    [shaderType : ShaderStages,
     shaderModel : ShaderModels,
     targetApi : TargetApis,
     targetLanguage : TargetLanguages,
     domain : MaterialDomains,
     hasFramebufferFetch : BOOLEAN]

\* ------------------------------------------------------------------- state

VARIABLES
    mOptimization,     \* GLSLPostProcessor::mOptimization
    mPrintShaders,     \* GLSLPostProcessor::mPrintShaders
    errorHandlers,     \* number of spirvbin_t::registerErrorHandler calls so far
    pc,                \* position in process() and its callees
    config,            \* the Config of the current call
    glslOutput,        \* [ptr, val, written]: the std::string* outputGlsl
    spirvOutput,       \* [ptr, val, written]: the SpirvBlob* outputSpirv
    mslOutput,         \* [ptr, val, written]: the std::string* outputMsl
    result,            \* "none" while running, else "true" or "false": what process() returned
    log,               \* what the call wrote to slog, in order
    internalConfig,    \* InternalConfig: shLang, langVersion
    msg,               \* the EShMessages of process()
    glsl,              \* the local std::string glsl of preprocessOptimization
    spirv,             \* the local SpirvBlob spirv of fullOptimization
    passes,            \* the passes registered in the spvtools::Optimizer
    sibTable,          \* SibGenerator::getSib(blockIndex, config.variant)
    materialSib,       \* config.materialInfo->sib
    resources,         \* mslCompiler.get_shader_resources()
    bindingIndexMap,   \* the local bindingIndexMap of spirvToToMsl
    mslBindings,       \* the MSLResourceBindings added to the CompilerMSL
    mslOptions,        \* the CompilerMSL::Options set on the CompilerMSL
    mslInput,          \* the blob spirvToToMsl was called with
    glslInput,         \* the blob the CompilerGLSL was constructed from
    calls,             \* the external calls of the current call, in order
    otherCall          \* the locals of a second process() call, while it is not the one stepping

vars ==
    <<mOptimization, mPrintShaders, errorHandlers, pc, config,
      glslOutput, spirvOutput, mslOutput, result, log, internalConfig, msg, glsl,
      spirv, passes, sibTable, materialSib, resources, bindingIndexMap,
      mslBindings, mslOptions, mslInput, glslInput, calls, otherCall>>

\* ------------------------------------------------------- symbolic values

\* A text is the sequence <<origin, transformation, ...>>: where it came from
\* and the transformations applied to it since, oldest first.
InputShader == <<"inputShader">>

\* What a caller's buffer holds before the call writes it.
CallerText == <<"caller">>
CallerBlob == [origin |-> "caller", lodBias |-> FALSE, optimized |-> FALSE,
               dce |-> FALSE]

\* ShaderMinifier::removeWhitespace and ShaderMinifier::renameStructFields.
removeWhitespace(text) == Append(text, "removeWhitespace")
renameStructFields(text) == Append(text, "renameStructFields")

\* An output slot: ptr is whether the caller passed a non-null pointer.
Slot(ptr, val) == [ptr |-> ptr, val |-> val, written |-> FALSE]
Store(slot, val) == [slot EXCEPT !.val = val, !.written = TRUE]

\* One external call of the current process(): the operation, whether it
\* succeeded, and the EShMessages it was given (parse, link, preprocess).
Call(op, ok, flags) == [op |-> op, ok |-> ok, msg |-> flags]

Called(op) == \E i \in DOMAIN calls : calls[i].op = op
CalledOk(op) == \E i \in DOMAIN calls : calls[i].op = op /\ calls[i].ok
Index(op) == CHOOSE i \in DOMAIN calls : calls[i].op = op
Before(op1, op2) ==
    \A j \in DOMAIN calls :
        calls[j].op = op2 => \E i \in 1..(j - 1) : calls[i].op = op1

\* ------------------------------------------------------------ GLSLTools

\* GLSLTools::glslangVersionFromShaderModel
glslangVersionFromShaderModel(model) == IF model = "MOBILE" THEN 100 ELSE 110

\* GLSLTools::glslangFlagsFromTargetApi
glslangFlagsFromTargetApi(targetApi, targetLanguage) ==
    (IF targetLanguage = "SPIRV" THEN {"EShMsgSpvRules"} ELSE {})
        \cup (IF targetApi = "VULKAN" THEN {"EShMsgVulkanRules"} ELSE {})

\* ------------------------------------------------------- small functions

glslVersionFromShaderModel(model) == IF model = "MOBILE" THEN 300 ELSE 410

SpvMessageLevels ==
    {"SPV_MSG_FATAL", "SPV_MSG_INTERNAL_ERROR", "SPV_MSG_ERROR",
     "SPV_MSG_WARNING", "SPV_MSG_INFO", "SPV_MSG_DEBUG"}

\* ndebug: whether the build defines NDEBUG.
filterSpvOptimizerMessage(level, ndebug) ==
    IF ndebug /\ level \in {"SPV_MSG_WARNING", "SPV_MSG_INFO", "SPV_MSG_DEBUG"}
    THEN FALSE
    ELSE TRUE

\* ------------------------------------------------------------ pass lists

\* A performance list that leaves MergeReturn out for every desktop target.
registerPerformancePasses_desktopSkips(cfg) ==
    <<"WrapOpKill", "DeadBranchElim">>
    \o (IF cfg.shaderModel # "DESKTOP"
        THEN <<"MergeReturn">>
        ELSE <<>>)
    \o <<"InlineExhaustive", "AggressiveDCE", "PrivateToLocal",
         "LocalSingleBlockLoadStoreElim", "LocalSingleStoreElim", "AggressiveDCE",
         "ScalarReplacement", "LocalAccessChainConvert",
         "LocalSingleBlockLoadStoreElim", "LocalSingleStoreElim", "AggressiveDCE",
         "LocalMultiStoreElim", "AggressiveDCE", "CCP", "AggressiveDCE",
         "RedundancyElimination", "CombineAccessChains", "Simplification",
         "VectorDCE", "DeadInsertElim", "DeadBranchElim", "Simplification",
         "IfConversion", "CopyPropagateArrays", "ReduceLoadSize", "AggressiveDCE",
         "BlockMerge", "RedundancyElimination", "DeadBranchElim", "BlockMerge",
         "Simplification">>

\* A performance list whose first AggressiveDCE comes before the inlining.
registerPerformancePasses_inlineLate(cfg) ==
    <<"WrapOpKill", "DeadBranchElim">>
    \o (IF cfg.shaderModel # "DESKTOP" \/ cfg.targetApi # "OPENGL"
        THEN <<"MergeReturn">>
        ELSE <<>>)
    \o <<"AggressiveDCE", "InlineExhaustive", "PrivateToLocal",
         "LocalSingleBlockLoadStoreElim", "LocalSingleStoreElim", "AggressiveDCE",
         "ScalarReplacement", "LocalAccessChainConvert",
         "LocalSingleBlockLoadStoreElim", "LocalSingleStoreElim", "AggressiveDCE",
         "LocalMultiStoreElim", "AggressiveDCE", "CCP", "AggressiveDCE",
         "RedundancyElimination", "CombineAccessChains", "Simplification",
         "VectorDCE", "DeadInsertElim", "DeadBranchElim", "Simplification",
         "IfConversion", "CopyPropagateArrays", "ReduceLoadSize", "AggressiveDCE",
         "BlockMerge", "RedundancyElimination", "DeadBranchElim", "BlockMerge",
         "Simplification">>

registerPerformancePasses(cfg) ==
    <<"WrapOpKill", "DeadBranchElim">>
    \o (IF cfg.shaderModel # "DESKTOP" \/ cfg.targetApi # "OPENGL"
        THEN <<"MergeReturn">>
        ELSE <<>>)
    \o <<"InlineExhaustive", "AggressiveDCE", "PrivateToLocal",
         "LocalSingleBlockLoadStoreElim", "LocalSingleStoreElim", "AggressiveDCE",
         "ScalarReplacement", "LocalAccessChainConvert",
         "LocalSingleBlockLoadStoreElim", "LocalSingleStoreElim", "AggressiveDCE",
         "LocalMultiStoreElim", "AggressiveDCE", "CCP", "AggressiveDCE",
         "RedundancyElimination", "CombineAccessChains", "Simplification",
         "VectorDCE", "DeadInsertElim", "DeadBranchElim", "Simplification",
         "IfConversion", "CopyPropagateArrays", "ReduceLoadSize", "AggressiveDCE",
         "BlockMerge", "RedundancyElimination", "DeadBranchElim", "BlockMerge",
         "Simplification">>

registerSizePasses_withDeadMembers(cfg) ==
    <<"WrapOpKill", "DeadBranchElim">>
    \o (IF cfg.shaderModel # "DESKTOP" THEN <<"MergeReturn">> ELSE <<>>)
    \o <<"InlineExhaustive", "EliminateDeadFunctions", "PrivateToLocal",
         "ScalarReplacement(0)", "LocalMultiStoreElim", "CCP", "LoopUnroll(true)",
         "DeadBranchElim", "Simplification", "ScalarReplacement(0)",
         "LocalSingleStoreElim", "IfConversion", "Simplification", "AggressiveDCE",
         "DeadBranchElim", "BlockMerge", "LocalAccessChainConvert",
         "LocalSingleBlockLoadStoreElim", "AggressiveDCE", "CopyPropagateArrays",
         "VectorDCE", "DeadInsertElim", "EliminateDeadMembers",
         "LocalSingleStoreElim", "BlockMerge", "LocalMultiStoreElim",
         "RedundancyElimination", "Simplification", "AggressiveDCE", "CFGCleanup">>

registerSizePasses(cfg) ==
    <<"WrapOpKill", "DeadBranchElim">>
    \o (IF cfg.shaderModel # "DESKTOP" THEN <<"MergeReturn">> ELSE <<>>)
    \o <<"InlineExhaustive", "EliminateDeadFunctions", "PrivateToLocal",
         "ScalarReplacement(0)", "LocalMultiStoreElim", "CCP", "LoopUnroll(true)",
         "DeadBranchElim", "Simplification", "ScalarReplacement(0)",
         "LocalSingleStoreElim", "IfConversion", "Simplification", "AggressiveDCE",
         "DeadBranchElim", "BlockMerge", "LocalAccessChainConvert",
         "LocalSingleBlockLoadStoreElim", "AggressiveDCE", "CopyPropagateArrays",
         "VectorDCE", "DeadInsertElim", "LocalSingleStoreElim", "BlockMerge",
         "LocalMultiStoreElim", "RedundancyElimination", "Simplification",
         "AggressiveDCE", "CFGCleanup">>

HalfPrecisionPasses ==
    <<"ConvertRelaxedToHalf", "Simplification", "RedundancyElimination",
      "AggressiveDCE">>

createOptimizer_halfEverywhere(optimization, cfg) ==
    IF optimization = "SIZE"
    THEN registerSizePasses(cfg)
    ELSE IF optimization = "PERFORMANCE"
    THEN registerPerformancePasses(cfg) \o HalfPrecisionPasses
    ELSE <<>>

\* A createOptimizer that registers the half precision passes first.
createOptimizer_halfFirst(optimization, cfg) ==
    IF optimization = "SIZE"
    THEN registerSizePasses(cfg)
    ELSE IF optimization = "PERFORMANCE"
    THEN (IF cfg.targetApi = "METAL" THEN HalfPrecisionPasses ELSE <<>>)
         \o registerPerformancePasses(cfg)
    ELSE <<>>

\* The passes registered in the optimizer createOptimizer returns.
createOptimizer(optimization, cfg) ==
    IF optimization = "SIZE"
    THEN registerSizePasses(cfg)
    ELSE IF optimization = "PERFORMANCE"
    THEN registerPerformancePasses(cfg)
         \o (IF cfg.targetApi = "METAL" THEN HalfPrecisionPasses ELSE <<>>)
    ELSE <<>>


\* ------------------------------------------------- binding index map (msl)

\* The sampler lists one SamplerInterfaceBlock may hold: names in declaration
\* order, a name at most once in one block.
SamplerLists ==
    {l \in UNION {[1..n -> Names] : n \in 0..MaxSamplers} :
        \A i, j \in DOMAIN l : i # j => l[i] # l[j]}

StageFlagSets == {{"VERTEX"}, {"FRAGMENT"}, {"VERTEX", "FRAGMENT"}}

\* A SamplerInterfaceBlock const*: present is FALSE for nullptr.
NullSib == [present |-> FALSE, stageFlags |-> {}, samplers |-> <<>>]
Sibs == [present : {TRUE}, stageFlags : StageFlagSets, samplers : SamplerLists]

BlockIndices == 0..(NumSamplerBindingPoints - 1)

\* hasShaderType (filament/MaterialEnums.h)
hasShaderType(stageFlags, shaderType) == shaderType \in stageFlags

\* map[name] = map.size(): the right operand is evaluated first (C++17), the
\* value is narrowed to uint16_t; an existing key keeps its place in the map
\* and takes the new value.
AssignIndex(map, name) ==
    [n \in DOMAIN map \cup {name} |->
        IF n = name THEN Cardinality(DOMAIN map) % 65536 ELSE map[n]]

RECURSIVE AssignAll(_, _)
AssignAll(map, infoList) ==
    IF infoList = <<>>
    THEN map
    ELSE AssignAll(AssignIndex(map, Head(infoList)), Tail(infoList))

\* A generateBindingIndexMap that takes a block whatever its stage flags.
generateBindingIndexMap_anyStage(cfg, sib, map) == AssignAll(map, sib.samplers)

generateBindingIndexMap(cfg, sib, map) ==
    IF hasShaderType(sib.stageFlags, cfg.shaderType)
    THEN AssignAll(map, sib.samplers)
    ELSE map

\* The loop of getBindingIndexMap over blockIndex, from blockIndex on.
RECURSIVE SharedBlocks(_, _, _, _)
SharedBlocks(cfg, table, blockIndex, map) ==
    IF blockIndex >= NumSamplerBindingPoints
    THEN map
    ELSE SharedBlocks(cfg, table, blockIndex + 1,
            IF blockIndex # PER_MATERIAL_INSTANCE /\ table[blockIndex].present
            THEN generateBindingIndexMap(cfg, table[blockIndex], map)
            ELSE map)

EmptyMap == [n \in {} |-> 0]

getBindingIndexMap(cfg, table, matSib) ==
    generateBindingIndexMap(cfg, matSib,
        IF cfg.domain = "SURFACE" THEN SharedBlocks(cfg, table, 0, EmptyMap)
        ELSE EmptyMap)

\* ------------------------------------------------------------ spirvToToMsl

\* A resource of the compiled module: its name and its DescriptorSet and
\* Binding decorations.
Resource(name, set, binding) == [name |-> name, set |-> set, binding |-> binding]

\* updateResourceBinding: the MSLResourceBinding added for a resource; useMap
\* is whether a BindingIndexMap was passed.  With a map, map->at(name) must
\* find the name (see Resolves).
updateResourceBinding_passThrough(executionModel, resource, useMap, map) ==
    [stage |-> executionModel, desc_set |-> resource.set,
     binding |-> resource.binding, msl_texture |-> resource.binding, msl_sampler |-> resource.binding,
     msl_buffer |-> resource.binding]

updateResourceBinding(executionModel, resource, useMap, map) ==
    LET index == IF useMap THEN map[resource.name] ELSE resource.binding
    IN  [stage |-> executionModel, desc_set |-> resource.set,
         binding |-> resource.binding,
         msl_texture |-> index, msl_sampler |-> index, msl_buffer |-> index]

\* map->at(name) returns; otherwise it throws std::out_of_range.
Resolves(map, resource) == resource.name \in DOMAIN map

\* The sampled images before the first one map->at fails on.
RECURSIVE ResolvedPrefix(_, _)
ResolvedPrefix(map, images) ==
    IF images = <<>> \/ ~Resolves(map, Head(images))
    THEN <<>>
    ELSE <<Head(images)>> \o ResolvedPrefix(map, Tail(images))

\* The CompilerMSL::Options spirvToToMsl sets.
MslOptions(cfg) ==
    [platform |-> IF cfg.shaderModel = "MOBILE" THEN "iOS" ELSE "macOS",
     msl_version |->
        IF cfg.hasFramebufferFetch /\ cfg.shaderModel = "DESKTOP" THEN <<2, 3>>
        ELSE IF cfg.shaderModel = "MOBILE" THEN <<2, 0>>
        ELSE <<2, 2>>,
     use_framebuffer_fetch_subpasses |-> cfg.hasFramebufferFetch]


\* ---------------------------------------------------------- construction

\* SpirvBlob values: where the module was lowered from and what was done to it.
Blob(origin, lodBias) ==
    [origin |-> origin, lodBias |-> lodBias, optimized |-> FALSE, dce |-> FALSE]

NoBlob == Blob("none", FALSE)
NoConfig ==
    [shaderType |-> "VERTEX", shaderModel |-> "MOBILE", targetApi |-> "OPENGL",
     targetLanguage |-> "GLSL", domain |-> "SURFACE", hasFramebufferFetch |-> FALSE]
NoInternalConfig == [shLang |-> "none", langVersion |-> 0]
NoMslOptions ==
    [platform |-> "none", msl_version |-> <<0, 0>>,
     use_framebuffer_fetch_subpasses |-> FALSE]
NoTable == [i \in BlockIndices |-> NullSib]
NoResources == [sampled_images |-> <<>>, uniform_buffers |-> <<>>]

\* The locals and outputs of the call that is stepping.
ThisCall ==
    [pc |-> pc, config |-> config, glslOutput |-> glslOutput,
     spirvOutput |-> spirvOutput, mslOutput |-> mslOutput, result |-> result,
     log |-> log, internalConfig |-> internalConfig, msg |-> msg, glsl |-> glsl,
     spirv |-> spirv, passes |-> passes, sibTable |-> sibTable,
     materialSib |-> materialSib, resources |-> resources,
     bindingIndexMap |-> bindingIndexMap, mslBindings |-> mslBindings,
     mslOptions |-> mslOptions, mslInput |-> mslInput, glslInput |-> glslInput,
     calls |-> calls]

\* A call that has not started.
IdleCall ==
    [pc |-> "idle", config |-> NoConfig, glslOutput |-> Slot(FALSE, CallerText),
     spirvOutput |-> Slot(FALSE, CallerBlob), mslOutput |-> Slot(FALSE, CallerText),
     result |-> "none", log |-> <<>>, internalConfig |-> NoInternalConfig,
     msg |-> {}, glsl |-> <<>>, spirv |-> NoBlob, passes |-> <<>>,
     sibTable |-> NoTable, materialSib |-> NullSib, resources |-> NoResources,
     bindingIndexMap |-> EmptyMap, mslBindings |-> <<>>,
     mslOptions |-> NoMslOptions, mslInput |-> NoBlob, glslInput |-> NoBlob,
     calls |-> <<>>]

\* The state of a call that has not started: every local at its default.
CallReset ==
    /\ config = NoConfig
    /\ glslOutput = Slot(FALSE, CallerText)
    /\ spirvOutput = Slot(FALSE, CallerBlob)
    /\ mslOutput = Slot(FALSE, CallerText)
    /\ result = "none"
    /\ log = <<>>
    /\ internalConfig = NoInternalConfig
    /\ msg = {}
    /\ glsl = <<>>
    /\ spirv = NoBlob
    /\ passes = <<>>
    /\ sibTable = NoTable
    /\ materialSib = NullSib
    /\ resources = NoResources
    /\ bindingIndexMap = EmptyMap
    /\ mslBindings = <<>>
    /\ mslOptions = NoMslOptions
    /\ mslInput = NoBlob
    /\ glslInput = NoBlob
    /\ calls = <<>>
    /\ otherCall = IdleCall

\* GLSLPostProcessor::GLSLPostProcessor(optimization, flags): the fields, and
\* one registration of the SPIRV error handler.  mGenerateDebugInfo, which
\* only sets SpvOptions::generateDebugInfo of GlslangToSpv, is left out.
Constructed(optimization, printShaders, handlers) ==
    /\ mOptimization = optimization
    /\ mPrintShaders = printShaders
    /\ errorHandlers = handlers + 1

Init ==
    /\ \E o \in Optimizations, p \in BOOLEAN : Constructed(o, p, 0)
    /\ pc = "idle"
    /\ CallReset

component == <<mOptimization, mPrintShaders, errorHandlers>>
mslVars ==
    <<sibTable, materialSib, resources, bindingIndexMap, mslBindings, mslOptions,
      mslInput>>
optVars == <<glsl, spirv, passes, glslInput>>
outputs == <<glslOutput, spirvOutput, mslOutput>>

\* ----------------------------------------------------------------- process

\* A call may start when no call is running.
CanCall == pc = "idle"

\* The locals and outputs of a call that starts: the three output pointers
\* (g, s, m: non-null or not), the buffers holding what the caller left there.
CallStart(cfg, g, s, m) ==
    /\ config' = cfg
    /\ spirvOutput' = Slot(s, CallerBlob)
    /\ mslOutput' = Slot(m, CallerText)
    /\ glsl' = <<>>
    /\ spirv' = NoBlob
    /\ passes' = <<>>
    /\ sibTable' = NoTable
    /\ materialSib' = NullSib
    /\ resources' = NoResources
    /\ bindingIndexMap' = EmptyMap
    /\ mslBindings' = <<>>
    /\ mslOptions' = NoMslOptions
    /\ mslInput' = NoBlob
    /\ glslInput' = NoBlob
    /\ calls' = <<>>

\* process(), targetLanguage == GLSL: the source is the output.  A null
\* outputGlsl is written through all the same.
ProcessGlsl_minified(cfg, g, s, m) ==
    /\ CanCall
    /\ cfg.targetLanguage = "GLSL"
    /\ CallStart(cfg, g, s, m)
    /\ internalConfig' = NoInternalConfig
    /\ msg' = {}
    /\ IF g
       THEN /\ glslOutput' = Store(Slot(g, CallerText), removeWhitespace(InputShader))
            /\ log' = IF mPrintShaders THEN <<"i:glsl">> ELSE <<>>
            /\ result' = "true"
            /\ pc' = "done"
       ELSE /\ glslOutput' = Slot(g, CallerText)
            /\ log' = <<>>
            /\ result' = "none"
            /\ pc' = "fault"
    /\ UNCHANGED component
    /\ UNCHANGED otherCall

ProcessGlsl(cfg, g, s, m) ==
    /\ CanCall
    /\ cfg.targetLanguage = "GLSL"
    /\ CallStart(cfg, g, s, m)
    /\ internalConfig' = NoInternalConfig
    /\ msg' = {}
    /\ IF g
       THEN /\ glslOutput' = Store(Slot(g, CallerText), InputShader)
            /\ log' = IF mPrintShaders THEN <<"i:glsl">> ELSE <<>>
            /\ result' = "true"
            /\ pc' = "done"
       ELSE /\ glslOutput' = Slot(g, CallerText)
            /\ log' = <<>>
            /\ result' = "none"
            /\ pc' = "fault"
    /\ UNCHANGED component
    /\ UNCHANGED otherCall

\* process(), any other target language, up to the parse: InternalConfig, the
\* shader parser set up, the EShMessages.
ProcessBegin(cfg, g, s, m) ==
    /\ CanCall
    /\ cfg.targetLanguage # "GLSL"
    /\ CallStart(cfg, g, s, m)
    /\ glslOutput' = Slot(g, CallerText)
    /\ internalConfig' =
          [shLang |-> IF cfg.shaderType = "VERTEX" THEN "EShLangVertex"
                      ELSE "EShLangFragment",
           langVersion |-> glslangVersionFromShaderModel(cfg.shaderModel)]
    /\ msg' = glslangFlagsFromTargetApi(cfg.targetApi, cfg.targetLanguage)
              \cup (IF cfg.hasFramebufferFetch THEN {"EShMsgVulkanRules"} ELSE {})
    /\ log' = <<>>
    /\ result' = "none"
    /\ pc' = "parse"
    /\ UNCHANGED component
    /\ UNCHANGED otherCall

\* return false after a failed parse or link: the info log is logged.
ReturnFalse(entry) ==
    /\ log' = Append(log, entry)
    /\ result' = "false"
    /\ pc' = "done"

\* tShader.parse
Parse_continueOnError(ok) ==
    /\ pc = "parse"
    /\ calls' = Append(calls, Call("parse", ok, msg))
    /\ log' = IF ok THEN log ELSE Append(log, "e:parse")
    /\ pc' = "lodBias"
    /\ UNCHANGED <<component, config, outputs, result, internalConfig, msg, optVars,
                   mslVars>>
    /\ UNCHANGED otherCall

Parse(ok) ==
    /\ pc = "parse"
    /\ calls' = Append(calls, Call("parse", ok, msg))
    /\ IF ok
       THEN pc' = "lodBias" /\ UNCHANGED <<log, result>>
       ELSE ReturnFalse("e:parse")
    /\ UNCHANGED <<component, config, outputs, internalConfig, msg, optVars, mslVars>>
    /\ UNCHANGED otherCall

\* GLSLTools::textureLodBias, for a fragment shader of a surface material.
TextureLodBias ==
    /\ pc = "lodBias"
    /\ calls' = IF config.shaderType = "FRAGMENT" /\ config.domain = "SURFACE"
                THEN Append(calls, Call("textureLodBias", TRUE, {}))
                ELSE calls
    /\ pc' = "link"
    /\ UNCHANGED <<component, config, outputs, result, log, internalConfig, msg,
                   optVars, mslVars>>
    /\ UNCHANGED otherCall

\* program.addShader, program.link
Link(ok) ==
    /\ pc = "link"
    /\ calls' = Append(calls, Call("link", ok, msg))
    /\ IF ok
       THEN pc' = "switch" /\ UNCHANGED <<log, result>>
       ELSE ReturnFalse("e:link")
    /\ UNCHANGED <<component, config, outputs, internalConfig, msg, optVars, mslVars>>
    /\ UNCHANGED otherCall

\* Where spirvToToMsl returns to.
AfterMsl ==
    IF mOptimization = "NONE" THEN "finalize"
    ELSE IF mOptimization = "PREPROCESSOR" THEN "preprocessGlsl"
    ELSE "fullGlsl"

\* GlslangToSpv of the shader parsed by process().
Lowered == Blob("inputShader", Called("textureLodBias"))

OptimizationNone_fallbackGlsl ==
    /\ pc = "switch"
    /\ mOptimization = "NONE"
    /\ IF spirvOutput.ptr
       THEN /\ calls' = Append(calls, Call("GlslangToSpv", TRUE, {}))
            /\ spirvOutput' = Store(spirvOutput, Lowered)
            /\ log' = log
            /\ glslOutput' = glslOutput
            /\ IF mslOutput.ptr
               THEN pc' = "msl" /\ mslInput' = Lowered
               ELSE pc' = "finalize" /\ mslInput' = mslInput
       ELSE /\ log' = Append(log, "e:NONE")
            /\ glslOutput' = IF glslOutput.ptr THEN Store(glslOutput, InputShader)
                              ELSE glslOutput
            /\ pc' = "finalize"
            /\ UNCHANGED <<calls, spirvOutput, mslInput>>
    /\ UNCHANGED <<component, config, mslOutput, result, internalConfig,
                   msg, optVars, sibTable, materialSib, resources, bindingIndexMap,
                   mslBindings, mslOptions>>
    /\ UNCHANGED otherCall

\* case Optimization::NONE
OptimizationNone ==
    /\ pc = "switch"
    /\ mOptimization = "NONE"
    /\ IF spirvOutput.ptr
       THEN /\ calls' = Append(calls, Call("GlslangToSpv", TRUE, {}))
            /\ spirvOutput' = Store(spirvOutput, Lowered)
            /\ log' = log
            /\ IF mslOutput.ptr
               THEN pc' = "msl" /\ mslInput' = Lowered
               ELSE pc' = "finalize" /\ mslInput' = mslInput
       ELSE /\ log' = Append(log, "e:NONE")
            /\ pc' = "finalize"
            /\ UNCHANGED <<calls, spirvOutput, mslInput>>
    /\ UNCHANGED <<component, config, glslOutput, mslOutput, result, internalConfig,
                   msg, optVars, sibTable, materialSib, resources, bindingIndexMap,
                   mslBindings, mslOptions>>
    /\ UNCHANGED otherCall


\* ------------------------------------------------ preprocessOptimization

\* assert_invariant(bool(spirvOutput) == (targetApi != OPENGL)): a build with
\* assertions stops there, a build without goes on.
PreprocessEnter ==
    /\ pc = "switch"
    /\ mOptimization = "PREPROCESSOR"
    /\ \/ pc' = "preprocess"
       \/ /\ spirvOutput.ptr # (config.targetApi # "OPENGL")
          /\ pc' = "fault"
    /\ UNCHANGED <<component, config, outputs, result, log, internalConfig, msg,
                   optVars, mslVars, calls>>
    /\ UNCHANGED otherCall

\* The EShMessages preprocessOptimization computes for itself.
PreprocessMsg == glslangFlagsFromTargetApi(config.targetApi, config.targetLanguage)

\* A preprocessOptimization that makes process() return false when
\* tShader.preprocess fails.
Preprocess_failureFatal(ok) ==
    /\ pc = "preprocess"
    /\ calls' = Append(calls, Call("preprocess", ok, PreprocessMsg))
    /\ glsl' = IF ok THEN <<"inputShader", "preprocess">>
               ELSE <<"inputShader", "preprocess failed">>
    /\ IF ok
       THEN /\ pc' = IF spirvOutput.ptr THEN "reparse" ELSE "preprocessMsl"
            /\ UNCHANGED <<log, result>>
       ELSE ReturnFalse("e:preprocess")
    /\ UNCHANGED <<component, config, outputs, internalConfig, msg, spirv,
                   passes, glslInput, mslVars>>
    /\ UNCHANGED otherCall

\* tShader.preprocess into the local glsl; a failure is logged.
Preprocess(ok) ==
    /\ pc = "preprocess"
    /\ calls' = Append(calls, Call("preprocess", ok, PreprocessMsg))
    /\ glsl' = IF ok THEN <<"inputShader", "preprocess">>
               ELSE <<"inputShader", "preprocess failed">>
    /\ log' = IF ok THEN log ELSE Append(log, "e:preprocess")
    /\ pc' = IF spirvOutput.ptr THEN "reparse" ELSE "preprocessMsl"
    /\ UNCHANGED <<component, config, outputs, result, internalConfig, msg, spirv,
                   passes, glslInput, mslVars>>
    /\ UNCHANGED otherCall

\* GlslangToSpv of the shader parsed again from the preprocessed text.
Relowered == Blob("glsl", FALSE)

\* A second shader that is lowered whether or not its parse and link succeeded.
Reparse_lowerAnyway(ok, linkOk) ==
    /\ pc = "reparse"
    /\ calls' = calls \o <<Call("reparse", ok, PreprocessMsg),
                           Call("relink", linkOk, PreprocessMsg),
                           Call("GlslangToSpv", TRUE, {})>>
    /\ spirvOutput' = Store(spirvOutput, Relowered)
    /\ log' = IF ok /\ linkOk THEN log ELSE Append(log, "e:reparse")
    /\ pc' = "preprocessMsl"
    /\ UNCHANGED <<component, config, glslOutput, mslOutput, result, internalConfig,
                   msg, optVars, mslVars>>
    /\ UNCHANGED otherCall

\* if (internalConfig.spirvOutput): parse and link the preprocessed text as a
\* second shader and lower it, or log.
Reparse(ok, linkOk) ==
    /\ pc = "reparse"
    /\ IF ok /\ linkOk
       THEN /\ calls' = calls \o <<Call("reparse", ok, PreprocessMsg),
                                   Call("relink", linkOk, PreprocessMsg),
                                   Call("GlslangToSpv", TRUE, {})>>
            /\ spirvOutput' = Store(spirvOutput, Relowered)
            /\ log' = log
       ELSE /\ calls' = calls \o <<Call("reparse", ok, PreprocessMsg),
                                   Call("relink", linkOk, PreprocessMsg)>>
            /\ spirvOutput' = spirvOutput
            /\ log' = Append(log, "e:reparse")
    /\ pc' = "preprocessMsl"
    /\ UNCHANGED <<component, config, glslOutput, mslOutput, result, internalConfig,
                   msg, optVars, mslVars>>
    /\ UNCHANGED otherCall

\* if (internalConfig.mslOutput) spirvToToMsl(internalConfig.spirvOutput, ...):
\* the blob is read through the pointer, null or not, written or not.
PreprocessMsl ==
    /\ pc = "preprocessMsl"
    /\ IF mslOutput.ptr
       THEN IF spirvOutput.ptr
            THEN pc' = "msl" /\ mslInput' = spirvOutput.val
            ELSE pc' = "fault" /\ mslInput' = mslInput
       ELSE pc' = "preprocessGlsl" /\ mslInput' = mslInput
    /\ UNCHANGED <<component, config, outputs, result, log, internalConfig, msg,
                   optVars, sibTable, materialSib, resources, bindingIndexMap,
                   mslBindings, mslOptions, calls>>
    /\ UNCHANGED otherCall

\* A preprocess-only path that hands the input shader back.
PreprocessGlsl_inputShader ==
    /\ pc = "preprocessGlsl"
    /\ glslOutput' = IF glslOutput.ptr THEN Store(glslOutput, InputShader)
                     ELSE glslOutput
    /\ pc' = "finalize"
    /\ UNCHANGED <<component, config, spirvOutput, mslOutput, result, log,
                   internalConfig, msg, optVars, mslVars, calls>>
    /\ UNCHANGED otherCall

\* if (internalConfig.glslOutput) *internalConfig.glslOutput = glsl
PreprocessGlsl ==
    /\ pc = "preprocessGlsl"
    /\ glslOutput' = IF glslOutput.ptr THEN Store(glslOutput, glsl) ELSE glslOutput
    /\ pc' = "finalize"
    /\ UNCHANGED <<component, config, spirvOutput, mslOutput, result, log,
                   internalConfig, msg, optVars, mslVars, calls>>
    /\ UNCHANGED otherCall

\* ------------------------------------------------------- fullOptimization

\* GlslangToSpv into the local spirv, createOptimizer.
FullLower ==
    /\ pc = "switch"
    /\ mOptimization \in {"SIZE", "PERFORMANCE"}
    /\ calls' = Append(calls, Call("GlslangToSpv", TRUE, {}))
    /\ spirv' = Lowered
    /\ passes' = createOptimizer(mOptimization, config)
    /\ pc' = "optimize"
    /\ UNCHANGED <<component, config, outputs, result, log, internalConfig, msg, glsl,
                   glslInput, mslVars>>
    /\ UNCHANGED otherCall

\* optimizeSpirv: a failed run is logged and nothing more is done; after a
\* run that succeeded the remapper removes the dead module-level objects.
optimizeSpirv_alwaysRemap(ok) ==
    /\ pc = "optimize"
    /\ calls' = calls \o <<Call("Optimizer::Run", ok, {}), Call("remap", TRUE, {})>>
    /\ spirv' = [spirv EXCEPT !.optimized = ok, !.dce = TRUE]
    /\ log' = IF ok THEN log ELSE Append(log, "e:optimizer")
    /\ pc' = "fullOutputs"
    /\ UNCHANGED <<component, config, outputs, result, internalConfig, msg, glsl,
                   passes, glslInput, mslVars>>
    /\ UNCHANGED otherCall

optimizeSpirv_failureFatal(ok) ==
    /\ pc = "optimize"
    /\ IF ok
       THEN /\ calls' = calls \o <<Call("Optimizer::Run", TRUE, {}),
                                   Call("remap", TRUE, {})>>
            /\ spirv' = [spirv EXCEPT !.optimized = TRUE, !.dce = TRUE]
            /\ pc' = "fullOutputs"
            /\ UNCHANGED <<log, result>>
       ELSE /\ calls' = Append(calls, Call("Optimizer::Run", FALSE, {}))
            /\ spirv' = spirv
            /\ ReturnFalse("e:optimizer")
    /\ UNCHANGED <<component, config, outputs, internalConfig, msg, glsl,
                   passes, glslInput, mslVars>>
    /\ UNCHANGED otherCall

\* An optimizeSpirv that registers the error handler itself, before the run.
optimizeSpirv_registersHandler(ok) ==
    /\ pc = "optimize"
    /\ errorHandlers' = errorHandlers + 1
    /\ IF ok
       THEN /\ calls' = calls \o <<Call("Optimizer::Run", TRUE, {}),
                                   Call("remap", TRUE, {})>>
            /\ spirv' = [spirv EXCEPT !.optimized = TRUE, !.dce = TRUE]
            /\ log' = log
       ELSE /\ calls' = Append(calls, Call("Optimizer::Run", FALSE, {}))
            /\ spirv' = spirv
            /\ log' = Append(log, "e:optimizer")
    /\ pc' = "fullOutputs"
    /\ UNCHANGED <<mOptimization, mPrintShaders, config, outputs, result,
                   internalConfig, msg, glsl, passes, glslInput, mslVars>>
    /\ UNCHANGED otherCall

optimizeSpirv(ok) ==
    /\ pc = "optimize"
    /\ IF ok
       THEN /\ calls' = calls \o <<Call("Optimizer::Run", TRUE, {}),
                                   Call("remap", TRUE, {})>>
            /\ spirv' = [spirv EXCEPT !.optimized = TRUE, !.dce = TRUE]
            /\ log' = log
       ELSE /\ calls' = Append(calls, Call("Optimizer::Run", FALSE, {}))
            /\ spirv' = spirv
            /\ log' = Append(log, "e:optimizer")
    /\ pc' = "fullOutputs"
    /\ UNCHANGED <<component, config, outputs, result, internalConfig, msg, glsl,
                   passes, glslInput, mslVars>>
    /\ UNCHANGED otherCall

\* A full optimization that gives the SPIR-V only when no MSL is asked for.
FullOutputs_spirvOrMsl ==
    /\ pc = "fullOutputs"
    /\ spirvOutput' = IF spirvOutput.ptr /\ ~mslOutput.ptr
                      THEN Store(spirvOutput, spirv)
                      ELSE spirvOutput
    /\ IF mslOutput.ptr
       THEN pc' = "msl" /\ mslInput' = spirv
       ELSE pc' = "fullGlsl" /\ mslInput' = mslInput
    /\ UNCHANGED <<component, config, glslOutput, mslOutput, result, log,
                   internalConfig, msg, optVars, sibTable, materialSib, resources,
                   bindingIndexMap, mslBindings, mslOptions, calls>>
    /\ UNCHANGED otherCall

\* A full optimization that compiles the MSL from the module as lowered.
FullOutputs_mslFromLowered ==
    /\ pc = "fullOutputs"
    /\ spirvOutput' = IF spirvOutput.ptr THEN Store(spirvOutput, spirv)
                      ELSE spirvOutput
    /\ IF mslOutput.ptr
       THEN pc' = "msl" /\ mslInput' = Lowered
       ELSE pc' = "fullGlsl" /\ mslInput' = mslInput
    /\ UNCHANGED <<component, config, glslOutput, mslOutput, result, log,
                   internalConfig, msg, optVars, sibTable, materialSib, resources,
                   bindingIndexMap, mslBindings, mslOptions, calls>>
    /\ UNCHANGED otherCall

\* The copy to *spirvOutput, then spirvToToMsl(&spirv, ...) if asked for.
FullOutputs ==
    /\ pc = "fullOutputs"
    /\ spirvOutput' = IF spirvOutput.ptr THEN Store(spirvOutput, spirv)
                      ELSE spirvOutput
    /\ IF mslOutput.ptr
       THEN pc' = "msl" /\ mslInput' = spirv
       ELSE pc' = "fullGlsl" /\ mslInput' = mslInput
    /\ UNCHANGED <<component, config, glslOutput, mslOutput, result, log,
                   internalConfig, msg, optVars, sibTable, materialSib, resources,
                   bindingIndexMap, mslBindings, mslOptions, calls>>
    /\ UNCHANGED otherCall

\* The options of the CompilerGLSL that transpiles back to GLSL.
GlslOptions(cfg) ==
    LET es == cfg.shaderModel = "MOBILE"
        version == glslVersionFromShaderModel(cfg.shaderModel)
    IN  [es |-> es, version |-> version,
         enable_420pack_extension |-> version >= 420,
         default_float_precision |-> IF es THEN "Mediump" ELSE "Highp",
         default_int_precision |-> IF es THEN "Mediump" ELSE "Highp"]

\* Transpile back to GLSL: CompilerGLSL(move(spirv)).compile().
FullGlsl ==
    /\ pc = "fullGlsl"
    /\ IF glslOutput.ptr
       THEN /\ calls' = Append(calls, Call("CompilerGLSL::compile", TRUE, {}))
            /\ glslInput' = spirv
            /\ glslOutput' = Store(glslOutput, <<"spirv", "CompilerGLSL::compile">>)
       ELSE UNCHANGED <<calls, glslInput, glslOutput>>
    /\ pc' = "finalize"
    /\ UNCHANGED <<component, config, spirvOutput, mslOutput, result, log,
                   internalConfig, msg, glsl, spirv, passes, mslVars>>
    /\ UNCHANGED otherCall


\* ------------------------------------------------------------ spirvToToMsl

BothStages == {"VERTEX", "FRAGMENT"}
Sib(flags, samplers) == [present |-> TRUE, stageFlags |-> flags, samplers |-> samplers]

\* The material descriptors and compiled modules process() is run with: the
\* shared blocks, the material's own block, the module's resources.
EnvTables == {NoTable, [NoTable EXCEPT ![0] = Sib(BothStages, <<"a", "b">>)]}
EnvMaterialSibs == {Sib(BothStages, <<>>), Sib(BothStages, <<"b">>)}
EnvResources ==
    {[sampled_images |-> <<>>, uniform_buffers |-> <<>>],
     [sampled_images |-> <<Resource("a", 0, 3)>>,
      uniform_buffers |-> <<Resource("ubo", 0, 5)>>],
     [sampled_images |-> <<Resource("b", 0, 4), Resource("a", 0, 3)>>,
      uniform_buffers |-> <<Resource("ubo", 0, 5), Resource("ubo2", 1, 0)>>]}

\* The bindings added for the resources in order, each by updateResourceBinding.
BindingsFor(executionModel, list, useMap, map) ==
    [i \in DOMAIN list |-> updateResourceBinding(executionModel, list[i], useMap, map)]

\* A spirvToToMsl whose map also takes the names the compiled module uses.
MslRemap_moduleNames(table, matSib, res) ==
    /\ pc = "msl"
    /\ sibTable' = table
    /\ materialSib' = matSib
    /\ resources' = res
    /\ mslOptions' = MslOptions(config)
    /\ LET names == [i \in DOMAIN res.sampled_images |-> res.sampled_images[i].name]
           map == AssignAll(getBindingIndexMap(config, table, matSib), names)
       IN  /\ bindingIndexMap' = map
           /\ mslBindings' =
                BindingsFor(config.shaderType, res.sampled_images, TRUE, map)
                \o BindingsFor(config.shaderType, res.uniform_buffers, FALSE, map)
           /\ pc' = "mslCompile"
    /\ UNCHANGED <<component, config, outputs, result, log, internalConfig, msg,
                   optVars, mslInput, calls>>
    /\ UNCHANGED otherCall

MslRemap_defaultIndex(table, matSib, res) ==
    /\ pc = "msl"
    /\ sibTable' = table
    /\ materialSib' = matSib
    /\ resources' = res
    /\ mslOptions' = MslOptions(config)
    /\ LET map == getBindingIndexMap(config, table, matSib)
           total == [n \in Names \cup DOMAIN map |->
                        IF n \in DOMAIN map THEN map[n] ELSE 0]
       IN  /\ bindingIndexMap' = map
           /\ mslBindings' =
                BindingsFor(config.shaderType, res.sampled_images, TRUE, total)
                \o BindingsFor(config.shaderType, res.uniform_buffers, FALSE, map)
           /\ pc' = "mslCompile"
    /\ UNCHANGED <<component, config, outputs, result, log, internalConfig, msg,
                   optVars, mslInput, calls>>
    /\ UNCHANGED otherCall

\* spirvToToMsl up to mslCompiler.compile(): the options, the binding index
\* map, a binding for every sampled image, then for every uniform buffer.
\* A sampled image that map->at does not find ends the call there.
MslRemap(table, matSib, res) ==
    /\ pc = "msl"
    /\ sibTable' = table
    /\ materialSib' = matSib
    /\ resources' = res
    /\ mslOptions' = MslOptions(config)
    /\ LET map == getBindingIndexMap(config, table, matSib)
           found == ResolvedPrefix(map, res.sampled_images)
       IN  /\ bindingIndexMap' = map
           /\ IF Len(found) = Len(res.sampled_images)
              THEN /\ mslBindings' =
                        BindingsFor(config.shaderType, found, TRUE, map)
                        \o BindingsFor(config.shaderType, res.uniform_buffers,
                                       FALSE, map)
                   /\ pc' = "mslCompile"
              ELSE /\ mslBindings' = BindingsFor(config.shaderType, found, TRUE, map)
                   /\ pc' = "fault"
    /\ UNCHANGED <<component, config, outputs, result, log, internalConfig, msg,
                   optVars, mslInput, calls>>
    /\ UNCHANGED otherCall

\* *outMsl = mslCompiler.compile(); *outMsl = minifier.removeWhitespace(*outMsl)
MslCompile ==
    /\ pc = "mslCompile"
    /\ calls' = Append(calls, Call("CompilerMSL::compile", TRUE, {}))
    /\ mslOutput' = Store(mslOutput, removeWhitespace(<<"spirv", "CompilerMSL::compile">>))
    /\ pc' = AfterMsl
    /\ UNCHANGED <<component, config, glslOutput, spirvOutput, result, log,
                   internalConfig, msg, optVars, mslVars>>
    /\ UNCHANGED otherCall

\* ------------------------------------------------------- the end of process

\* A finalizer that renames the struct fields at every optimization level.
Finalize_renameAlways ==
    /\ pc = "finalize"
    /\ IF glslOutput.ptr
       THEN /\ glslOutput' =
                Store(glslOutput,
                      renameStructFields(removeWhitespace(glslOutput.val)))
            /\ log' = IF mPrintShaders THEN Append(log, "i:glsl") ELSE log
       ELSE UNCHANGED <<glslOutput, log>>
    /\ result' = "true"
    /\ pc' = "done"
    /\ UNCHANGED <<component, config, spirvOutput, mslOutput, internalConfig, msg,
                   optVars, mslVars, calls>>
    /\ UNCHANGED otherCall

\* if (internalConfig.glslOutput): removeWhitespace, renameStructFields unless
\* the optimization is NONE, the shader printed if asked for; return true.
Finalize ==
    /\ pc = "finalize"
    /\ IF glslOutput.ptr
       THEN /\ glslOutput' =
                Store(glslOutput,
                      IF mOptimization # "NONE"
                      THEN renameStructFields(removeWhitespace(glslOutput.val))
                      ELSE removeWhitespace(glslOutput.val))
            /\ log' = IF mPrintShaders THEN Append(log, "i:glsl") ELSE log
       ELSE UNCHANGED <<glslOutput, log>>
    /\ result' = "true"
    /\ pc' = "done"
    /\ UNCHANGED <<component, config, spirvOutput, mslOutput, internalConfig, msg,
                   optVars, mslVars, calls>>
    /\ UNCHANGED otherCall

\* The caller takes the result and the outputs; the next call starts afresh.
Return ==
    /\ pc = "done"
    /\ pc' = "idle"
    /\ config' = NoConfig
    /\ glslOutput' = Slot(FALSE, CallerText)
    /\ spirvOutput' = Slot(FALSE, CallerBlob)
    /\ mslOutput' = Slot(FALSE, CallerText)
    /\ result' = "none"
    /\ log' = <<>>
    /\ internalConfig' = NoInternalConfig
    /\ msg' = {}
    /\ glsl' = <<>>
    /\ spirv' = NoBlob
    /\ passes' = <<>>
    /\ sibTable' = NoTable
    /\ materialSib' = NullSib
    /\ resources' = NoResources
    /\ bindingIndexMap' = EmptyMap
    /\ mslBindings' = <<>>
    /\ mslOptions' = NoMslOptions
    /\ mslInput' = NoBlob
    /\ glslInput' = NoBlob
    /\ calls' = <<>>
    /\ UNCHANGED component
    /\ UNCHANGED otherCall

\* ------------------------------------------------------------ specification

Next ==
    \/ \E cfg \in Configs, g, s, m \in BOOLEAN : ProcessGlsl(cfg, g, s, m)
    \/ \E cfg \in Configs, g, s, m \in BOOLEAN : ProcessBegin(cfg, g, s, m)
    \/ \E ok \in BOOLEAN : Parse(ok)
    \/ TextureLodBias
    \/ \E ok \in BOOLEAN : Link(ok)
    \/ OptimizationNone
    \/ PreprocessEnter
    \/ \E ok \in BOOLEAN : Preprocess(ok)
    \/ \E ok, linkOk \in BOOLEAN : Reparse(ok, linkOk)
    \/ PreprocessMsl
    \/ PreprocessGlsl
    \/ FullLower
    \/ \E ok \in BOOLEAN : optimizeSpirv(ok)
    \/ FullOutputs
    \/ FullGlsl
    \/ \E table \in EnvTables, matSib \in EnvMaterialSibs, res \in EnvResources :
          MslRemap(table, matSib, res)
    \/ MslCompile
    \/ Finalize
    \/ Return

Spec == Init /\ [][Next]_vars


\* ------------------------------------------- more than one GLSLPostProcessor

\* Everything a call of process() has of its own.
callVars ==
    <<pc, config, outputs, result, log, internalConfig, msg, optVars, mslVars,
      calls>>

\* The GLSLPostProcessor objects constructed in one run of the program.
MaxConstructions == 2

\* Another GLSLPostProcessor is constructed, and is the one process() is
\* called on from then on: the constructor registers the handler again.
Construct(optimization, printShaders) ==
    /\ pc = "idle"
    /\ errorHandlers < MaxConstructions
    /\ mOptimization' = optimization
    /\ mPrintShaders' = printShaders
    /\ errorHandlers' = errorHandlers + 1
    /\ UNCHANGED callVars
    /\ UNCHANGED otherCall

LifeNext ==
    \/ Next
    \/ \E o \in Optimizations, p \in BOOLEAN : Construct(o, p)

LifeSpec == Init /\ [][LifeNext]_vars

\* ------------------------------------------- two process() calls at once

\* The calls two threads make on one GLSLPostProcessor: a fragment shader
\* with every output, a vertex shader without the SPIR-V output, a GLSL
\* target.
ConcCalls ==
    {[cfg |-> [shaderType |-> "FRAGMENT", shaderModel |-> "MOBILE",
               targetApi |-> "METAL", targetLanguage |-> "SPIRV",
               domain |-> "SURFACE", hasFramebufferFetch |-> FALSE],
      g |-> TRUE, s |-> TRUE, m |-> TRUE],
     [cfg |-> [shaderType |-> "VERTEX", shaderModel |-> "MOBILE",
               targetApi |-> "METAL", targetLanguage |-> "SPIRV",
               domain |-> "SURFACE", hasFramebufferFetch |-> FALSE],
      g |-> TRUE, s |-> FALSE, m |-> TRUE],
     [cfg |-> [shaderType |-> "FRAGMENT", shaderModel |-> "DESKTOP",
               targetApi |-> "OPENGL", targetLanguage |-> "GLSL",
               domain |-> "SURFACE", hasFramebufferFetch |-> FALSE],
      g |-> TRUE, s |-> FALSE, m |-> FALSE]}

\* The scheduler takes the stepping thread off the processor and puts the
\* other one on: each thread has its own stack, so its own locals and its
\* own output buffers; the GLSLPostProcessor and the registered handler are
\* the same for both.  A fault ends the program, both threads with it.
Switch ==
    /\ pc # "fault"
    /\ otherCall' = ThisCall
    /\ pc' = otherCall.pc
    /\ config' = otherCall.config
    /\ glslOutput' = otherCall.glslOutput
    /\ spirvOutput' = otherCall.spirvOutput
    /\ mslOutput' = otherCall.mslOutput
    /\ result' = otherCall.result
    /\ log' = otherCall.log
    /\ internalConfig' = otherCall.internalConfig
    /\ msg' = otherCall.msg
    /\ glsl' = otherCall.glsl
    /\ spirv' = otherCall.spirv
    /\ passes' = otherCall.passes
    /\ sibTable' = otherCall.sibTable
    /\ materialSib' = otherCall.materialSib
    /\ resources' = otherCall.resources
    /\ bindingIndexMap' = otherCall.bindingIndexMap
    /\ mslBindings' = otherCall.mslBindings
    /\ mslOptions' = otherCall.mslOptions
    /\ mslInput' = otherCall.mslInput
    /\ glslInput' = otherCall.glslInput
    /\ calls' = otherCall.calls
    /\ UNCHANGED component

ConcInit == Init /\ ~mPrintShaders

ConcNext ==
    \/ \E c \in ConcCalls : ProcessGlsl(c.cfg, c.g, c.s, c.m)
    \/ \E c \in ConcCalls : ProcessBegin(c.cfg, c.g, c.s, c.m)
    \/ \E ok \in BOOLEAN : Parse(ok)
    \/ TextureLodBias
    \/ \E ok \in BOOLEAN : Link(ok)
    \/ OptimizationNone
    \/ PreprocessEnter
    \/ \E ok \in BOOLEAN : Preprocess(ok)
    \/ \E ok, linkOk \in BOOLEAN : Reparse(ok, linkOk)
    \/ PreprocessMsl
    \/ PreprocessGlsl
    \/ FullLower
    \/ \E ok \in BOOLEAN : optimizeSpirv(ok)
    \/ FullOutputs
    \/ FullGlsl
    \/ \E table \in EnvTables, matSib \in EnvMaterialSibs, res \in EnvResources :
          MslRemap(table, matSib, res)
    \/ MslCompile
    \/ Finalize
    \/ Return
    \/ Switch

ConcSpec == ConcInit /\ [][ConcNext]_vars

\* ------------------------------------------- the binding index map alone

\* getBindingIndexMap applied to every material descriptor within the bounds:
\* every table of shared blocks, every block of the material, both stages
\* and both domains.
MapConfigs ==
    {cfg \in Configs :
        /\ cfg.shaderModel = "MOBILE"
        /\ cfg.targetApi = "METAL"
        /\ cfg.targetLanguage = "SPIRV"
        /\ ~cfg.hasFramebufferFetch}

MapInit ==
    /\ Constructed("PERFORMANCE", FALSE, 0)
    /\ pc = "map"
    /\ config \in MapConfigs
    /\ sibTable \in [BlockIndices -> Sibs \cup {NullSib}]
    /\ materialSib \in Sibs
    /\ glslOutput = Slot(FALSE, CallerText)
    /\ spirvOutput = Slot(TRUE, CallerBlob)
    /\ mslOutput = Slot(TRUE, CallerText)
    /\ result = "none"
    /\ log = <<>>
    /\ internalConfig = NoInternalConfig
    /\ msg = {}
    /\ glsl = <<>>
    /\ spirv = NoBlob
    /\ passes = <<>>
    /\ resources = NoResources
    /\ bindingIndexMap = EmptyMap
    /\ mslBindings = <<>>
    /\ mslOptions = NoMslOptions
    /\ mslInput = NoBlob
    /\ glslInput = NoBlob
    /\ calls = <<>>
    /\ otherCall = IdleCall

\* auto bindingIndexMap = getBindingIndexMap(config)
GetBindingIndexMap ==
    /\ pc = "map"
    /\ bindingIndexMap' = getBindingIndexMap(config, sibTable, materialSib)
    /\ pc' = "mapped"
    /\ UNCHANGED <<component, config, outputs, result, log, internalConfig, msg,
                   optVars, sibTable, materialSib, resources, mslBindings,
                   mslOptions, mslInput, calls>>
    /\ UNCHANGED otherCall

MapNext == GetBindingIndexMap

MapSpec == MapInit /\ [][MapNext]_vars


\* ------------------------------------------------------------------ claims

Range(seq) == {seq[i] : i \in DOMAIN seq}
FullPath == mOptimization \in {"SIZE", "PERFORMANCE"}
NothingWritten ==
    ~glslOutput.written /\ ~spirvOutput.written /\ ~mslOutput.written
MissingSampler ==
    \E i \in DOMAIN resources.sampled_images :
        resources.sampled_images[i].name \notin DOMAIN bindingIndexMap

\* C1: a call whose target language is GLSL, given the native-source slot,
\* returns true with the native-source output equal to the input source,
\* whatever the optimization level, the stage, the shader model and the
\* other slots.
C1_FastPathIdentity ==
    (config.targetLanguage = "GLSL" /\ glslOutput.ptr /\ pc \in {"done", "fault"})
        => /\ pc = "done"
           /\ result = "true"
           /\ glslOutput.written
           /\ glslOutput.val = InputShader
           /\ calls = <<>>

C1_Witness ==
    /\ pc = "done"
    /\ config.targetLanguage = "GLSL"
    /\ ~spirvOutput.ptr
    /\ mOptimization = "PERFORMANCE"
    /\ glslOutput.val = InputShader
    /\ result = "true"

\* C2: a failed parse or link of the source is the last external call of
\* the call: process has returned false and no output slot was written.
C2_ParseLinkFailureAborts ==
    \A i \in DOMAIN calls :
        (calls[i].op \in {"parse", "link"} /\ ~calls[i].ok)
            => /\ i = Len(calls)
               /\ pc = "done"
               /\ result = "false"
               /\ NothingWritten

C2_Witness ==
    /\ pc = "done"
    /\ result = "false"
    /\ Called("link")
    /\ ~CalledOk("link")
    /\ glslOutput.ptr /\ spirvOutput.ptr /\ mslOutput.ptr
    /\ NothingWritten

\* C3: the indices stored in the binding index map are exactly 0..k-1, k the
\* number of names in the map, for every table of blocks, material block,
\* stage and domain, a name declared by two blocks included.
C3_BindingDensity ==
    pc = "mapped"
        => {bindingIndexMap[n] : n \in DOMAIN bindingIndexMap}
               = {i \in 0..Cardinality(DOMAIN bindingIndexMap) : 
                     i < Cardinality(DOMAIN bindingIndexMap)}

\* C4: every binding added to the MSL compiler has its three MSL slots
\* equal: to the index of the resource's name in the binding index map for a
\* sampled image, to the resource's own binding for a uniform buffer; when
\* the translator runs every sampled image and uniform buffer has its binding.
C4_RemappedBindings ==
    LET images == resources.sampled_images
        buffers == resources.uniform_buffers
    IN  /\ \A i \in DOMAIN mslBindings :
              LET b == mslBindings[i]
                  r == IF i <= Len(images) THEN images[i] ELSE buffers[i - Len(images)]
                  index == IF i <= Len(images) THEN bindingIndexMap[r.name]
                           ELSE r.binding
              IN  /\ i <= Len(images) + Len(buffers)
                  /\ b.desc_set = r.set
                  /\ b.binding = r.binding
                  /\ b.stage = config.shaderType
                  /\ b.msl_texture = index
                  /\ b.msl_sampler = index
                  /\ b.msl_buffer = index
        /\ (pc = "mslCompile" \/ Called("CompilerMSL::compile"))
              => Len(mslBindings) = Len(images) + Len(buffers)

C4_Witness ==
    /\ Called("CompilerMSL::compile")
    /\ Len(resources.sampled_images) = 2
    /\ Len(resources.uniform_buffers) = 2
    /\ Len(mslBindings) = 4
    /\ mslBindings[1].msl_texture # mslBindings[1].binding
    /\ mslBindings[4].msl_buffer = mslBindings[4].binding

\* C5: when a sampled image of the module has no entry in the binding index
\* map, spirvToToMsl ends in the failed lookup: the bindings added are those
\* of the images before the first missing one, the translator has not run
\* and the cross-compiled slot is not written.
C5_MissingSamplerIsFatal ==
    MissingSampler
        => /\ pc = "fault"
           /\ result = "none"
           /\ ~Called("CompilerMSL::compile")
           /\ ~mslOutput.written
           /\ Len(mslBindings) < Len(resources.sampled_images)
           /\ resources.sampled_images[Len(mslBindings) + 1].name
                  \notin DOMAIN bindingIndexMap
           /\ \A i \in DOMAIN mslBindings :
                  resources.sampled_images[i].name \in DOMAIN bindingIndexMap

C5_Witness ==
    /\ pc = "fault"
    /\ MissingSampler
    /\ Len(mslBindings) = 1
    /\ Len(resources.sampled_images) = 2

\* C6: the passes registered for optimization SIZE never include the dead
\* struct member elimination, for every target API and shader model.
C6_SizeWithoutDeadMembers ==
    /\ mOptimization = "SIZE" => "EliminateDeadMembers" \notin Range(passes)
    /\ \A cfg \in Configs :
          "EliminateDeadMembers" \notin Range(createOptimizer("SIZE", cfg))

C6_Witness ==
    /\ mOptimization = "SIZE"
    /\ passes # <<>>
    /\ config.targetApi = "METAL"
    /\ config.shaderModel = "DESKTOP"
    /\ Called("Optimizer::Run")

\* C7: the registered passes include ConvertRelaxedToHalf exactly when the
\* optimization is PERFORMANCE and the target API is METAL; it then follows
\* the whole registerPerformancePasses sequence and the list ends with it,
\* Simplification, RedundancyElimination and AggressiveDCE.
C7_HalfPrecisionOnlyPerformanceMetal ==
    LET half == "ConvertRelaxedToHalf" \in Range(passes)
        n == Len(registerPerformancePasses(config))
    IN  /\ half => (mOptimization = "PERFORMANCE" /\ config.targetApi = "METAL")
        /\ (passes # <<>> /\ mOptimization = "PERFORMANCE"
                /\ config.targetApi = "METAL") => half
        /\ half => /\ Len(passes) = n + 4
                   /\ SubSeq(passes, 1, n) = registerPerformancePasses(config)
                   /\ SubSeq(passes, n + 1, n + 4) =
                          <<"ConvertRelaxedToHalf", "Simplification",
                            "RedundancyElimination", "AggressiveDCE">>
                   /\ \A i \in 1..n : passes[i] # "ConvertRelaxedToHalf"

C7_Witness ==
    /\ "ConvertRelaxedToHalf" \in Range(passes)
    /\ Called("Optimizer::Run")
    /\ config.shaderModel = "DESKTOP"

\* C8 as claimed: once the optimizer has run on the SIZE or PERFORMANCE
\* path, succeeded or failed, the dead module-level objects are removed.
C8_SweepAfterEveryRun ==
    (FullPath /\ Called("Optimizer::Run")) => Called("remap")

\* C8 as the code has it: the remapper runs exactly when the optimizer run
\* succeeded, directly after it, before the blob is copied to the binary
\* output or given to a translator; after a failed run it does not run.
C8_SweepAfterSuccessfulRun ==
    FullPath =>
        /\ Called("remap") <=> CalledOk("Optimizer::Run")
        /\ \A j \in DOMAIN calls :
              calls[j].op = "remap" => (j > 1 /\ calls[j - 1].op = "Optimizer::Run")
        /\ Before("Optimizer::Run", "CompilerMSL::compile")
        /\ Before("Optimizer::Run", "CompilerGLSL::compile")
        /\ spirvOutput.written => Called("Optimizer::Run")
        /\ CalledOk("Optimizer::Run") =>
              /\ Before("remap", "CompilerMSL::compile")
              /\ Before("remap", "CompilerGLSL::compile")
              /\ spirvOutput.written => spirvOutput.val.dce
              /\ Called("CompilerMSL::compile") => mslInput.dce
              /\ Called("CompilerGLSL::compile") => glslInput.dce

C8_Witness ==
    /\ FullPath
    /\ pc = "done"
    /\ CalledOk("Optimizer::Run")
    /\ Called("remap")
    /\ spirvOutput.written
    /\ Called("CompilerMSL::compile")
    /\ Called("CompilerGLSL::compile")

\* C9: after a failed optimizer run process does not return false, and when
\* it has returned every requested output was produced from the blob as
\* lowered (the failed run leaves it as it was); only a failed sampler
\* lookup of spirvToToMsl ends the call otherwise.
C9_OptimizerFailureNotFatal ==
    (FullPath /\ Called("Optimizer::Run") /\ ~CalledOk("Optimizer::Run")) =>
        /\ result # "false"
        /\ "e:optimizer" \in Range(log)
        /\ spirv = Lowered
        /\ pc = "fault" => MissingSampler
        /\ pc = "done" =>
              /\ result = "true"
              /\ spirvOutput.ptr => (spirvOutput.written /\ spirvOutput.val = Lowered)
              /\ mslOutput.ptr =>
                    (mslOutput.written /\ mslInput = Lowered
                        /\ Called("CompilerMSL::compile"))
              /\ glslOutput.ptr =>
                    (glslOutput.written /\ glslInput = Lowered
                        /\ Called("CompilerGLSL::compile"))

C9_Witness ==
    /\ FullPath
    /\ pc = "done"
    /\ Called("Optimizer::Run")
    /\ ~CalledOk("Optimizer::Run")
    /\ result = "true"
    /\ glslOutput.written /\ spirvOutput.written /\ mslOutput.written

\* The case of C10: optimization NONE, a target language other than GLSL,
\* no binary slot, the source parsed and linked, the call returned.
NoneWithoutSpirv ==
    /\ pc = "done"
    /\ mOptimization = "NONE"
    /\ config.targetLanguage # "GLSL"
    /\ ~spirvOutput.ptr
    /\ CalledOk("link")

\* C10 as claimed: the error is logged, process returns true and none of the
\* three slots is written.
C10_NoneWritesNoSlot ==
    NoneWithoutSpirv
        => (result = "true" /\ "e:NONE" \in Range(log) /\ NothingWritten)

\* C10 as the code has it: the error is logged, process returns true, the
\* binary and the cross-compiled slot are not written and nothing is lowered
\* or translated; a native-source slot that was passed is rewritten with the
\* whitespace-stripped text the caller left in it, without renaming.
C10_NoneWritesNothingNew ==
    NoneWithoutSpirv
        => /\ result = "true"
           /\ "e:NONE" \in Range(log)
           /\ ~spirvOutput.written
           /\ ~mslOutput.written
           /\ glslOutput.written <=> glslOutput.ptr
           /\ glslOutput.ptr => glslOutput.val = removeWhitespace(CallerText)
           /\ \A i \in DOMAIN calls : calls[i].op \in {"parse", "textureLodBias", "link"}

C10_Witness ==
    /\ NoneWithoutSpirv
    /\ glslOutput.ptr
    /\ mslOutput.ptr
    /\ glslOutput.val = removeWhitespace(CallerText)
    /\ ~mslOutput.written



\* ------------------------------------------------------------------- C11

\* The two finalizer steps as they show in a text.
Count(text, step) == Cardinality({i \in DOMAIN text : text[i] = step})
Returned == pc = "done" /\ result = "true"

\* The text ends with the finalizer applied once: the whitespace stripped,
\* then the struct fields renamed exactly when the optimization is not NONE.
Finalized(text) ==
    /\ Count(text, "removeWhitespace") = 1
    /\ IF mOptimization = "NONE"
       THEN /\ text[Len(text)] = "removeWhitespace"
            /\ Count(text, "renameStructFields") = 0
       ELSE /\ Len(text) >= 2
            /\ text[Len(text) - 1] = "removeWhitespace"
            /\ text[Len(text)] = "renameStructFields"
            /\ Count(text, "renameStructFields") = 1

\* C11 as stated: every GLSL text a successful process() wrote to its GLSL
\* output has had its whitespace stripped, and its struct fields renamed
\* exactly when the optimization is not NONE.
C11_FinalizerOnEveryReturnedText ==
    (Returned /\ glslOutput.written) =>
        /\ "removeWhitespace" \in Range(glslOutput.val)
        /\ ("renameStructFields" \in Range(glslOutput.val)) <=>
               (mOptimization # "NONE")

\* C11 amended: when the target language is not GLSL, the GLSL text a
\* successful process() wrote ends with the finalizer applied once (whitespace
\* stripped, then struct fields renamed exactly when the optimization is not
\* NONE); when the target language is GLSL the text is the input shader with
\* no finalizer step at all.
C11_FinalizerOffTheFastPath ==
    (Returned /\ glslOutput.written) =>
        IF config.targetLanguage = "GLSL"
        THEN glslOutput.val = InputShader
        ELSE Finalized(glslOutput.val)

C11_Witness ==
    /\ Returned
    /\ mOptimization = "PERFORMANCE"
    /\ config.targetLanguage = "SPIRV"
    /\ glslOutput.written
    /\ glslOutput.val =
           <<"spirv", "CompilerGLSL::compile", "removeWhitespace",
             "renameStructFields">>


\* ------------------------------------------------------------------- C12

\* What tShader.preprocess left in its output string.
Preprocessed ==
    IF CalledOk("preprocess") THEN <<"inputShader", "preprocess">>
    ELSE <<"inputShader", "preprocess failed">>

\* C12: a process() that returns from preprocessOptimization with a GLSL
\* output gives the finalized text the preprocessor produced from the input
\* shader, not the input shader and not a text compiled back from SPIR-V, and
\* has run neither the optimizer nor the SPIR-V to GLSL compiler.
C12_PreprocessOnlyGivesPreprocessedText ==
    (Returned /\ mOptimization = "PREPROCESSOR" /\ config.targetLanguage # "GLSL"
        /\ glslOutput.ptr) =>
        /\ glslOutput.written
        /\ Called("preprocess")
        /\ glslOutput.val = renameStructFields(removeWhitespace(Preprocessed))
        /\ glslOutput.val[1] = "inputShader"
        /\ glslOutput.val # renameStructFields(removeWhitespace(InputShader))
        /\ ~Called("Optimizer::Run")
        /\ ~Called("remap")
        /\ ~Called("CompilerGLSL::compile")
        /\ passes = <<>>
        /\ glslInput = NoBlob

C12_Witness ==
    /\ Returned
    /\ mOptimization = "PREPROCESSOR"
    /\ config.targetLanguage = "SPIRV"
    /\ glslOutput.written
    /\ spirvOutput.written
    /\ CalledOk("preprocess")
    /\ glslOutput.val =
           <<"inputShader", "preprocess", "removeWhitespace", "renameStructFields">>


\* ------------------------------------------------------------------- C13

AllRequestedWritten ==
    /\ glslOutput.ptr => glslOutput.written
    /\ spirvOutput.ptr => spirvOutput.written
    /\ mslOutput.ptr => mslOutput.written

\* C13 as stated: when process() returns true, every output the caller
\* passed a pointer for has been written during the call.
C13_EveryRequestedSlotWritten == Returned => AllRequestedWritten

\* C13 amended: when process() returns true, every output asked for has been
\* written at SIZE and PERFORMANCE; with target language GLSL only the GLSL
\* output is written; at NONE the SPIR-V and MSL outputs are written only if
\* a SPIR-V output was asked for; at PREPROCESSOR the GLSL and MSL outputs
\* are written and the SPIR-V output is written exactly when the second parse
\* and link succeeded.
C13_RequestedSlotsWrittenByPath ==
    Returned =>
        IF config.targetLanguage = "GLSL"
        THEN glslOutput.written /\ ~spirvOutput.written /\ ~mslOutput.written
        ELSE CASE mOptimization = "NONE" ->
                    /\ spirvOutput.ptr => AllRequestedWritten
                    /\ ~spirvOutput.ptr => ~mslOutput.written
               [] mOptimization = "PREPROCESSOR" ->
                    /\ glslOutput.ptr => glslOutput.written
                    /\ mslOutput.ptr => mslOutput.written
                    /\ spirvOutput.ptr =>
                          (spirvOutput.written <=>
                              (CalledOk("reparse") /\ CalledOk("relink")))
               [] OTHER -> AllRequestedWritten

C13_Witness ==
    /\ Returned
    /\ mOptimization = "SIZE"
    /\ glslOutput.ptr /\ spirvOutput.ptr /\ mslOutput.ptr
    /\ glslOutput.written /\ spirvOutput.written /\ mslOutput.written


\* ------------------------------------------------------------------- C14

\* C14: the SPIRV error handler is registered once: the number of
\* registrations never exceeds one, however many GLSLPostProcessor objects
\* are constructed and whatever process() calls are made.
C14_RegisteredOnce == errorHandlers <= 1


\* ------------------------------------------------------------------- C15

\* A step of one call leaves the other call's locals and outputs, and the
\* GLSLPostProcessor with its registered handler, as they were; a switch
\* exchanges the two calls and changes neither.
OwnStepOrSwitch ==
    /\ UNCHANGED component
    /\ \/ otherCall' = otherCall
       \/ otherCall' = ThisCall /\ ThisCall' = otherCall

\* What holds of the result and the outputs of a call that runs alone.
AsWhenAlone ==
    /\ C1_FastPathIdentity
    /\ C2_ParseLinkFailureAborts
    /\ C11_FinalizerOffTheFastPath
    /\ C13_RequestedSlotsWrittenByPath

\* C15: in every interleaving of the steps of two process() calls on one
\* GLSLPostProcessor, no step of a call changes anything the other call reads
\* or writes, and the result and outputs of each call are those of the call
\* run alone.
C15_ConcurrentCallsDoNotInterfere == []AsWhenAlone /\ [][OwnStepOrSwitch]_vars

C15_Witness ==
    /\ pc = "optimize"
    /\ otherCall.pc = "msl"
    /\ config.shaderType = "FRAGMENT"
    /\ otherCall.config.shaderType = "VERTEX"


\* ------------------------------------------------------------------- C16

\* The call has built its binding index map.
MapBuilt(call) == call.mslOptions # NoMslOptions

\* The two calls build the map for the same descriptor, domain and stage.
SameDescriptor ==
    /\ config.shaderType = otherCall.config.shaderType
    /\ config.domain = otherCall.config.domain
    /\ sibTable = otherCall.sibTable
    /\ materialSib = otherCall.materialSib

\* C16: two process() calls that build the binding index map for the same
\* material descriptor, domain and stage build the same map, whatever the
\* calls made before or between the two and whatever else the two calls
\* differ in.
C16_BindingMapDeterminism ==
    (MapBuilt(ThisCall) /\ MapBuilt(otherCall) /\ SameDescriptor) =>
        bindingIndexMap = otherCall.bindingIndexMap

C16_Witness ==
    /\ MapBuilt(ThisCall)
    /\ MapBuilt(otherCall)
    /\ SameDescriptor
    /\ resources # otherCall.resources
    /\ pc = "mslCompile"
    /\ otherCall.pc = "done"
    /\ bindingIndexMap = otherCall.bindingIndexMap
    /\ DOMAIN bindingIndexMap = {"a", "b"}


\* ------------------------------------------------------------------- C17

\* The external call at position i is op and succeeded.
OkAt(i, op) == i \in DOMAIN calls /\ calls[i].op = op /\ calls[i].ok

\* C17: every GlslangToSpv of a call comes after a successful parse and a
\* successful link of the shader it lowers: the shader process() parsed at
\* NONE, SIZE and PERFORMANCE, the shader parsed again from the preprocessed
\* text at PREPROCESSOR; no parse or link that failed comes before it.
C17_LinkPrecedesLowering ==
    \A j \in DOMAIN calls :
        calls[j].op = "GlslangToSpv" =>
            /\ \E i \in 1..(j - 1) : \E k \in (i + 1)..(j - 1) :
                  OkAt(i, "parse") /\ OkAt(k, "link")
            /\ \A i \in 1..(j - 1) :
                  calls[i].op \in {"parse", "link", "reparse", "relink"}
                      => calls[i].ok
            /\ mOptimization = "PREPROCESSOR" =>
                  OkAt(j - 2, "reparse") /\ OkAt(j - 1, "relink")
            /\ mOptimization # "PREPROCESSOR" =>
                  ~Called("reparse") /\ ~Called("relink")

C17_Witness ==
    /\ Returned
    /\ mOptimization = "PREPROCESSOR"
    /\ Called("GlslangToSpv")
    /\ CalledOk("reparse")
    /\ CalledOk("relink")
    /\ spirvOutput.val = Relowered


\* ------------------------------------------------------------------- C18

\* Where MergeReturn stands when it is registered: third, once, directly
\* after WrapOpKill and DeadBranchElim and directly before InlineExhaustive.
MergeReturnThird ==
    /\ SubSeq(passes, 1, 4) =
           <<"WrapOpKill", "DeadBranchElim", "MergeReturn", "InlineExhaustive">>
    /\ Count(passes, "MergeReturn") = 1

DesktopOpenGL == config.shaderModel = "DESKTOP" /\ config.targetApi = "OPENGL"

\* C18 as stated: in the SIZE and the PERFORMANCE list MergeReturn is
\* registered for every shader model and target API other than desktop with
\* OpenGL, and not for that one; registered, it is the third pass.
C18_MergeReturnUnlessDesktopOpenGL ==
    passes # <<>> =>
        /\ ("MergeReturn" \in Range(passes)) <=> ~DesktopOpenGL
        /\ "MergeReturn" \in Range(passes) => MergeReturnThird

\* C18 amended: the PERFORMANCE list has MergeReturn for every shader model
\* and target API other than desktop with OpenGL; the SIZE list has it
\* exactly for the shader models other than desktop, whatever the target API;
\* registered, it is the third pass, after WrapOpKill and DeadBranchElim and
\* before InlineExhaustive.
C18_MergeReturnByLevel ==
    passes # <<>> =>
        /\ mOptimization = "PERFORMANCE" =>
              (("MergeReturn" \in Range(passes)) <=> ~DesktopOpenGL)
        /\ mOptimization = "SIZE" =>
              (("MergeReturn" \in Range(passes)) <=> config.shaderModel # "DESKTOP")
        /\ "MergeReturn" \in Range(passes) => MergeReturnThird
        /\ "MergeReturn" \notin Range(passes) =>
              SubSeq(passes, 1, 3) =
                  <<"WrapOpKill", "DeadBranchElim", "InlineExhaustive">>

C18_Witness ==
    /\ mOptimization = "PERFORMANCE"
    /\ config.shaderModel = "DESKTOP"
    /\ config.targetApi = "VULKAN"
    /\ Called("Optimizer::Run")
    /\ passes[3] = "MergeReturn"


\* ------------------------------------------------------------------- C19

\* The passes that remove dead code, dead-branch elimination apart.
DeadCodePasses ==
    {"AggressiveDCE", "VectorDCE", "EliminateDeadFunctions", "DeadInsertElim"}

\* The part of the registered list that registerSizePasses or
\* registerPerformancePasses put there: all of it but the four passes
\* createOptimizer adds after registerPerformancePasses for METAL.
SharedLen ==
    IF mOptimization = "PERFORMANCE" /\ config.targetApi = "METAL"
    THEN Len(passes) - Len(HalfPrecisionPasses)
    ELSE Len(passes)
SharedPasses == SubSeq(passes, 1, SharedLen)

StartsWithKillAndBranch ==
    SubSeq(SharedPasses, 1, 2) = <<"WrapOpKill", "DeadBranchElim">>

InlineBeforeDeadCode ==
    /\ Count(SharedPasses, "InlineExhaustive") = 1
    /\ \A i, j \in DOMAIN SharedPasses :
          (SharedPasses[i] = "InlineExhaustive" /\ SharedPasses[j] \in DeadCodePasses)
              => i < j

\* The last n passes of the shared part.
LastPasses(n) == SubSeq(SharedPasses, SharedLen - n + 1, SharedLen)

\* C19 as stated: the SIZE and the PERFORMANCE sequence both start with
\* WrapOpKill and DeadBranchElim, have InlineExhaustive before every dead
\* code elimination pass and end with BlockMerge followed by Simplification.
C19_SharedFrame ==
    passes # <<>> =>
        /\ StartsWithKillAndBranch
        /\ InlineBeforeDeadCode
        /\ LastPasses(2) = <<"BlockMerge", "Simplification">>

\* C19 amended: both sequences start with WrapOpKill and DeadBranchElim and
\* have InlineExhaustive before every dead code elimination pass; the
\* PERFORMANCE sequence ends with BlockMerge followed by Simplification, the
\* SIZE sequence with Simplification, AggressiveDCE and CFGCleanup.
C19_SharedFrameByLevel ==
    passes # <<>> =>
        /\ StartsWithKillAndBranch
        /\ InlineBeforeDeadCode
        /\ mOptimization = "PERFORMANCE" =>
              LastPasses(2) = <<"BlockMerge", "Simplification">>
        /\ mOptimization = "SIZE" =>
              LastPasses(3) = <<"Simplification", "AggressiveDCE", "CFGCleanup">>

C19_Witness ==
    /\ mOptimization = "SIZE"
    /\ Called("Optimizer::Run")
    /\ passes[Len(passes)] = "CFGCleanup"
    /\ config.shaderModel = "MOBILE"


\* ------------------------------------------------------------------- C20

\* The block exists and its stage flags include the stage of the call.
ActiveBlock(sib) == sib.present /\ hasShaderType(sib.stageFlags, config.shaderType)

\* The names declared by the shared blocks that are not the per material
\* instance one and are active for the stage; those of the material's block.
SharedActiveNames ==
    UNION {Range(sibTable[i].samplers) :
              i \in {j \in BlockIndices :
                        j # PER_MATERIAL_INSTANCE /\ ActiveBlock(sibTable[j])}}
MaterialActiveNames ==
    IF ActiveBlock(materialSib) THEN Range(materialSib.samplers) ELSE {}

\* C20 as stated: in every domain and stage the map has an entry for every
\* sampler of every shared block that is not the per material instance one
\* and is active for the stage, and no entry for a name that only inactive
\* blocks or the per material instance block of the table declare.
C20_MembershipInEveryDomain ==
    pc = "mapped" =>
        /\ SharedActiveNames \subseteq DOMAIN bindingIndexMap
        /\ DOMAIN bindingIndexMap \subseteq SharedActiveNames \cup MaterialActiveNames

\* C20 amended: in the SURFACE domain the names in the map are exactly those
\* of the shared blocks that are not the per material instance one and are
\* active for the stage, with those of the material's own block if active; in
\* the POST_PROCESS domain they are those of the material's own block alone.
C20_MembershipByDomain ==
    pc = "mapped" =>
        DOMAIN bindingIndexMap =
            (IF config.domain = "SURFACE" THEN SharedActiveNames ELSE {})
                \cup MaterialActiveNames

C20_Witness ==
    /\ pc = "mapped"
    /\ config.domain = "SURFACE"
    /\ config.shaderType = "VERTEX"
    /\ sibTable[0] = Sib({"VERTEX"}, <<"a">>)
    /\ sibTable[PER_MATERIAL_INSTANCE] = Sib(BothStages, <<"b">>)
    /\ sibTable[2] = Sib({"FRAGMENT"}, <<"b">>)
    /\ materialSib = Sib({"FRAGMENT"}, <<"b">>)
    /\ DOMAIN bindingIndexMap = {"a"}


\* ------------------------------------------------------------------- C21

\* The names only shared blocks contribute.
SharedOnlyNames ==
    (IF config.domain = "SURFACE" THEN SharedActiveNames ELSE {})
        \ MaterialActiveNames

\* C21: the samplers of the material's own block, when the block takes part
\* for the stage, are all in the map, each with an index greater than that
\* of every name only shared blocks contribute, and with indices increasing
\* in declaration order.
C21_MaterialResourcesLast ==
    (pc = "mapped" /\ ActiveBlock(materialSib)) =>
        LET own == materialSib.samplers
        IN  /\ Range(own) \subseteq DOMAIN bindingIndexMap
            /\ \A i \in DOMAIN own : \A n \in SharedOnlyNames :
                  bindingIndexMap[own[i]] > bindingIndexMap[n]
            /\ \A i, j \in DOMAIN own :
                  i < j => bindingIndexMap[own[i]] < bindingIndexMap[own[j]]


\* ------------------------------------------------------------------- C22

\* C22: a sampled image of the compiled module that is not in the binding
\* index map ends only the MSL output: the call goes on, and when it has
\* returned the GLSL and SPIR-V outputs asked for are written, the GLSL one
\* finalized.
C22_MissingSamplerAbortsOnlyMsl ==
    MissingSampler =>
        /\ pc # "fault"
        /\ Returned =>
              /\ spirvOutput.ptr => spirvOutput.written
              /\ glslOutput.ptr =>
                    (glslOutput.written /\ Finalized(glslOutput.val))


\* ------------------------------------------------------------------- C23

\* C23: in a call with hasFramebufferFetch every parse and every link, those
\* of the shader parsed again from the preprocessed text included, is given
\* EShMsgVulkanRules, whatever the target API.
C23_FramebufferFetchVulkanRules ==
    config.hasFramebufferFetch =>
        \A i \in DOMAIN calls :
            calls[i].op \in {"parse", "link", "reparse", "relink"}
                => "EShMsgVulkanRules" \in calls[i].msg


\* ------------------------------------------------------------------- C24

FragmentSurface == config.shaderType = "FRAGMENT" /\ config.domain = "SURFACE"

\* The SPIR-V modules of the call that GlslangToSpv produced, wherever held.
LoweredModules ==
    {b \in {spirv, spirvOutput.val, mslInput, glslInput} :
        b.origin \in {"inputShader", "glsl"}}

\* C24: in a call for a fragment shader of a SURFACE material every module
\* GlslangToSpv produced comes from a shader textureLodBias was applied to,
\* and that before the link; in any other call textureLodBias is not called.
C24_LodBiasOnEveryLoweredModule ==
    /\ FragmentSurface =>
          /\ \A b \in LoweredModules : b.lodBias
          /\ Called("link") => Before("textureLodBias", "link")
    /\ ~FragmentSurface => ~Called("textureLodBias")


\* ------------------------------------------------------------------- C25

\* The lowered module after a successful optimizer run and the sweep.
OptimizedAndSwept == [Lowered EXCEPT !.optimized = TRUE, !.dce = TRUE]

\* Every output of fullOptimization produced so far was made from blob.
OutputsMadeFrom(blob) ==
    /\ spirvOutput.written => spirvOutput.val = blob
    /\ mslInput # NoBlob => mslInput = blob
    /\ Called("CompilerGLSL::compile") => glslInput = blob

MslFromNullBlob ==
    /\ pc = "fault"
    /\ mOptimization = "PREPROCESSOR"
    /\ Called("preprocess")
    /\ mslOutput.ptr
    /\ ~spirvOutput.ptr

\* C26: spirvToToMsl is only ever given a module GlslangToSpv produced in
\* the same call: never what the caller left in the SPIR-V buffer after a
\* second parse or link that failed, never a null pointer.
C26_MslOnlyFromLoweredModule ==
    /\ mslInput # NoBlob =>
          /\ mslInput.origin \in {"inputShader", "glsl"}
          /\ Called("GlslangToSpv")
          /\ mOptimization = "PREPROCESSOR" =>
                (CalledOk("reparse") /\ CalledOk("relink"))
    /\ ~MslFromNullBlob


\* ------------------------------------------------------------------- C27

\* In the list MergeReturn stands before every ConvertRelaxedToHalf.
MergeReturnBeforeHalf(list) ==
    \A j \in DOMAIN list :
        list[j] = "ConvertRelaxedToHalf" =>
            \E i \in 1..(j - 1) : list[i] = "MergeReturn"

\* C27: a registered pass list that has ConvertRelaxedToHalf has MergeReturn
\* in it, before ConvertRelaxedToHalf, in the optimizer of every call: for
\* every optimization, shader model, target API and stage.
C27_HalfPassImpliesMergeReturn ==
    /\ MergeReturnBeforeHalf(passes)
    /\ "ConvertRelaxedToHalf" \in Range(passes) => "MergeReturn" \in Range(passes)

C27_Witness ==
    /\ Called("Optimizer::Run")
    /\ config.shaderModel = "DESKTOP"
    /\ config.targetApi = "METAL"
    /\ passes[3] = "MergeReturn"
    /\ passes[Len(passes) - 3] = "ConvertRelaxedToHalf"


\* ------------------------------------------------------------------- C28

\* The parse or the link of process() failed.
FirstParseOrLinkFailed ==
    \E i \in DOMAIN calls : calls[i].op \in {"parse", "link"} /\ ~calls[i].ok

\* The faults that are logged and no more, each with its log entry.
LoggedFaults ==
    {<<Called("preprocess") /\ ~CalledOk("preprocess"), "e:preprocess">>,
     <<\E i \in DOMAIN calls :
           calls[i].op \in {"reparse", "relink"} /\ ~calls[i].ok, "e:reparse">>,
     <<Called("Optimizer::Run") /\ ~CalledOk("Optimizer::Run"), "e:optimizer">>,
     <<mOptimization = "NONE" /\ config.targetLanguage # "GLSL" /\ ~spirvOutput.ptr
           /\ pc \in {"finalize", "done"} /\ ~FirstParseOrLinkFailed, "e:NONE">>}

\* C28: process() has returned false exactly when its own parse or link
\* failed; a failed preprocess, a failed second parse or link, a failed
\* optimizer run and optimization NONE without a SPIR-V output are each
\* logged, do not end the call and leave true as the only value returned.
C28_FailureIffFirstParseOrLink ==
    /\ pc = "done" =>
          /\ result \in {"true", "false"}
          /\ (result = "false") <=> FirstParseOrLinkFailed
    /\ result # "none" => pc = "done"
    /\ \A f \in LoggedFaults :
          /\ f[1] <=> f[2] \in Range(log)
          /\ f[1] => ~FirstParseOrLinkFailed /\ result # "false"

C28_Witness ==
    /\ Returned
    /\ mOptimization = "PREPROCESSOR"
    /\ "e:preprocess" \in Range(log)
    /\ "e:reparse" \in Range(log)
    /\ ~spirvOutput.written
    /\ glslOutput.written

====
